---- MODULE Spec2Model ----
(***************************************************************************)
(* A model of wordle_solver.py: the WordleSolver (pattern state            *)
(* derivation, candidate filter, suggestion search) and the                *)
(* WordleSolverMultiList coordinator that runs one solver per word list.   *)
(*                                                                         *)
(* Conventions.                                                            *)
(*  - A word is a sequence of one-letter strings, a feedback a sequence of *)
(*    symbols "#" (correct), "?" (wrong spot), "_" (absent).  Positions    *)
(*    are 1-based here and 0-based in the source.                          *)
(*  - included_letters / excluded_letters / wrong_spot_pattern[i] are      *)
(*    Python strings that the code only tests for membership and          *)
(*    deduplicates with set(): they are sets here.                         *)
(*  - max_letter_occurrence is a dict; its insertion order is observable   *)
(*    (the loop over keys()), so it is a sequence of entries here.         *)
(*  - word_scores and word_symbol_combinations are the constructor        *)
(*    defaults {} (as in the command line program), so sort_words ranks    *)
(*    by positional probability and no try matches an effective list.      *)
(*  - Probabilities that are compared share their denominator, so they     *)
(*    are compared through their integer numerators.                       *)
(*  - A Python list is an object: two fields can name the same list.       *)
(*    alias[h] names the object the tries field of holder h refers to      *)
(*    (holder 0 is the coordinator, holder k solver k), as the least       *)
(*    holder referring to the same object.                                 *)
(***************************************************************************)
EXTENDS Integers, Sequences, FiniteSets, TLC

\* ------------------------------------------------------------------ bounds
\* most entries a try list may hold before a further guess is offered
MaxTries == 2

\* --------------------------------------------------------------- constants
\* the configured word length
WordLength == 5
\* stands for sys.maxsize: larger than every try count
maxsize == 1000000

\* string.ascii_lowercase, cut down to five letters, in alphabetical order
ascii_lowercase == <<"e", "h", "p", "s", "t">>
permitted_input_symbols == {"#", "?", "_"}
symbol_anyletter == "*"

Range(seq) == {seq[i] : i \in 1..Len(seq)}

\* ------------------------------------------------------------------ inputs
sheep == <<"s", "h", "e", "e", "p">>
sheet == <<"s", "h", "e", "e", "t">>
seeps == <<"s", "e", "e", "p", "s">>
thtee == <<"t", "h", "t", "e", "e">>
eheet == <<"e", "h", "e", "e", "t">>
theet == <<"t", "h", "e", "e", "t">>
sepet == <<"s", "e", "p", "e", "t">>
septh == <<"s", "e", "p", "t", "h">>
teeth == <<"t", "e", "e", "t", "h">>
tepee == <<"t", "e", "p", "e", "e">>

\* the word lists the sources load (english_words.txt, english_full.txt)
WordList1 == <<sheep, sheet, eheet, sepet, teeth>>
WordList2 == <<sheep, sheet, eheet, theet, thtee, sepet, septh, teeth, tepee>>

\* well-formed guesses offered to input_guess_result
WellFormedGuesses ==
    { <<sheep, <<"_", "#", "#", "#", "_">> >>,
      <<sheep, <<"_", "#", "?", "#", "_">> >>,
      <<sheep, <<"_", "#", "_", "#", "_">> >>,
      <<sheep, <<"_", "#", "#", "_", "?">> >>,
      <<sheep, <<"_", "_", "_", "_", "_">> >>,
      <<sheet, <<"_", "#", "#", "#", "#">> >>,
      <<seeps, <<"#", "#", "_", "?", "_">> >> }

\* malformed guesses: wrong word length, wrong feedback length, a character
\* that is no lowercase letter, a symbol outside "#?_"
MalformedGuesses ==
    { << <<"s", "h", "e", "e">>,      <<"_", "#", "#", "#", "_">> >>,
      << sheep,                       <<"_", "#", "#", "#">> >>,
      << <<"s", "h", "E", "e", "p">>, <<"_", "#", "#", "#", "_">> >>,
      << sheep,                       <<"_", "#", "x", "#", "_">> >> }

\* guesses offered to the coordinator's input_guess_result
MultiGuesses ==
    { <<sheep, <<"_", "#", "#", "#", "_">> >>,
      <<eheet, <<"#", "#", "#", "#", "#">> >> } \cup MalformedGuesses

\* lists handed to set_excluded_words
ExcludedWordLists == { <<eheet, sepet>> }

\* values assigned to max_try_indexes_for_lists
MaxTryIndexLists == { <<1>>, <<1, maxsize>> }

\* ------------------------------------------------------- sequence helpers
RECURSIVE CountLetter(_, _)
\* sum(1 for l in word if l == letter)
CountLetter(word, letter) ==
    IF word = <<>> THEN 0
    ELSE (IF Head(word) = letter THEN 1 ELSE 0) + CountLetter(Tail(word), letter)

RemoveAt(seq, i) == SubSeq(seq, 1, i - 1) \o SubSeq(seq, i + 1, Len(seq))

RECURSIVE SortDescending(_, _)
\* list.sort(key=..., reverse=True): descending and stable; keys[i] is the
\* key of items[i]
SortDescending(items, keys) ==
    IF items = <<>> THEN <<>>
    ELSE LET i == CHOOSE k \in 1..Len(items) :
                      /\ \A j \in 1..Len(items) : keys[j] <= keys[k]
                      /\ \A j \in 1..(k - 1) : keys[j] < keys[k]
         IN  <<items[i]>> \o SortDescending(RemoveAt(items, i), RemoveAt(keys, i))

\* ----------------------------------------------------------- WordleSolver
\* the pattern parameters after reset_pattern_parameters
reset_pattern_parameters(s) ==
    [s EXCEPT !.included_letters = {},
              !.excluded_letters = {},
              !.high_prob_letters = <<>>,
              !.wrong_spot_pattern = [i \in 1..WordLength |-> {}],
              !.right_spot_pattern = [i \in 1..WordLength |-> symbol_anyletter],
              !.max_letter_occurrence = <<>>,
              !.excluded_words = <<>>,
              !.effective_word_list = <<>>]

\* WordleSolver.__init__ with the word list already loaded, then reset()
NewSolver(word_list) ==
    reset_pattern_parameters(
        [tries |-> <<>>, word_list |-> word_list,
         included_letters |-> {}, excluded_letters |-> {},
         high_prob_letters |-> <<>>,
         wrong_spot_pattern |-> <<>>, right_spot_pattern |-> <<>>,
         max_letter_occurrence |-> <<>>,
         excluded_words |-> <<>>, effective_word_list |-> <<>>])

\* WordleSolver.reset
solver_reset(s) == reset_pattern_parameters([s EXCEPT !.tries = <<>>])

\* the letters that have an entry in max_letter_occurrence
OccurrenceKeys(mlo) == {mlo[k].letter : k \in 1..Len(mlo)}

\* OccurrenceCap counting the occurrences after position i only
OccurrenceCap_after(word, i) ==
    CountLetter(SubSeq(word, i + 1, Len(word)), word[i])

\* the cap stored for word[i]: its occurrences before and after position i
OccurrenceCap(word, i) ==
    CountLetter(SubSeq(word, 1, i - 1), word[i])
        + CountLetter(SubSeq(word, i + 1, Len(word)), word[i])

\* ProcessSymbol recording the wrong spot for "#" as well as for "?"
ProcessSymbol_both_spots(s, word, symbol_pattern, i) ==
    IF symbol_pattern[i] \in {"#", "?"}
    THEN LET s1 == [s EXCEPT !.included_letters = @ \cup {word[i]},
                             !.wrong_spot_pattern[i] = @ \cup {word[i]}]
         IN  IF symbol_pattern[i] = "#"
             THEN [s1 EXCEPT !.right_spot_pattern[i] = word[i]]
             ELSE s1
    ELSE IF symbol_pattern[i] = "_"
    THEN IF word[i] \notin s.included_letters
         THEN [s EXCEPT !.excluded_letters = @ \cup {word[i]}]
         ELSE IF word[i] \notin OccurrenceKeys(s.max_letter_occurrence)
              THEN [s EXCEPT !.max_letter_occurrence =
                        Append(@, [letter |-> word[i], max |-> OccurrenceCap(word, i)])]
              ELSE s
    ELSE s

\* one pass of the inner loop of update_pattern_parameters: symbol i of a try
ProcessSymbol(s, word, symbol_pattern, i) ==
    IF symbol_pattern[i] \in {"#", "?"}
    THEN LET s1 == [s EXCEPT !.included_letters = @ \cup {word[i]}]
         IN  IF symbol_pattern[i] = "#"
             THEN [s1 EXCEPT !.right_spot_pattern[i] = word[i]]
             ELSE [s1 EXCEPT !.wrong_spot_pattern[i] = @ \cup {word[i]}]
    ELSE IF symbol_pattern[i] = "_"
    THEN IF word[i] \notin s.included_letters
         THEN [s EXCEPT !.excluded_letters = @ \cup {word[i]}]
         ELSE IF word[i] \notin OccurrenceKeys(s.max_letter_occurrence)
              THEN [s EXCEPT !.max_letter_occurrence =
                        Append(@, [letter |-> word[i], max |-> OccurrenceCap(word, i)])]
              ELSE s
    ELSE s

RECURSIVE ProcessTry(_, _, _, _)
\* for i in range(0, self.word_length), from position i on
ProcessTry(s, word, symbol_pattern, i) ==
    IF i > WordLength THEN s
    ELSE ProcessTry(ProcessSymbol(s, word, symbol_pattern, i), word, symbol_pattern, i + 1)

RECURSIVE ProcessTries(_, _)
\* for word, symbol_pattern in self.tries
ProcessTries(s, tries) ==
    IF tries = <<>> THEN s
    ELSE ProcessTries(ProcessTry(s, Head(tries)[1], Head(tries)[2], 1), Tail(tries))

\* FinalExcludedLetters dropping the right spot letters only
FinalExcludedLetters_right_spot_only(s) ==
    s.excluded_letters \ Range(s.right_spot_pattern)

\* FinalExcludedLetters without the second look at the included letters
FinalExcludedLetters_keep_all(s) == s.excluded_letters

\* the excluded letters kept after the accumulation: those not included
FinalExcludedLetters(s) == s.excluded_letters \ s.included_letters

\* WordleSolver.update_pattern_parameters
update_pattern_parameters(s) ==
    LET acc == ProcessTries(reset_pattern_parameters(s), s.tries)
    IN  [acc EXCEPT !.excluded_letters = FinalExcludedLetters(acc)]

\* is_not_in_word with any() for all()
is_not_in_word_any(s, word) ==
    s.excluded_letters = {} \/ \E letter \in s.excluded_letters : letter \notin Range(word)

\* is_not_in_word: no excluded letter is in the word
is_not_in_word(s, word) == \A letter \in s.excluded_letters : letter \notin Range(word)

\* is_in_word: every included and every high probability letter is in the word
is_in_word(s, word) ==
    \A letter \in s.included_letters \cup Range(s.high_prob_letters) :
        letter \in Range(word)

\* is_not_tried
is_not_tried(s, word) == word \notin {s.tries[k][1] : k \in 1..Len(s.tries)}

\* match_right_spot_pattern returning True at the first free position
\* instead of continuing
match_right_spot_pattern_return(s, word) ==
    \A i \in 1..Len(s.right_spot_pattern) :
        \/ \E j \in 1..i : s.right_spot_pattern[j] = symbol_anyletter
        \/ s.right_spot_pattern[i] = word[i]

\* match_right_spot_pattern
match_right_spot_pattern(s, word) ==
    \A i \in 1..Len(s.right_spot_pattern) :
        \/ s.right_spot_pattern[i] = symbol_anyletter
        \/ s.right_spot_pattern[i] = word[i]

\* the list get_possible_words searches, which it also stores in the solver
EffectiveWordList(s) ==
    IF Len(s.effective_word_list) <= 0 THEN s.word_list ELSE s.effective_word_list

\* the first three filters of get_possible_words
third_level_filter(s) ==
    LET all_excluded_words ==
            {s.tries[k][1] : k \in 1..Len(s.tries)} \cup Range(s.excluded_words)
        first(word) ==
            /\ is_in_word(s, word)
            /\ is_not_in_word(s, word)
            /\ is_not_tried(s, word)
            /\ word \notin all_excluded_words
        second(word) ==
            \A i \in 1..WordLength : word[i] \notin s.wrong_spot_pattern[i]
        third(word) == match_right_spot_pattern(s, word)
    IN  SelectSeq(SelectSeq(SelectSeq(EffectiveWordList(s), first), second), third)

\* the filter one pass of the loop over max_letter_occurrence.keys() computes
OccurrenceFilter(third, entry) ==
    LET within(word) == CountLetter(word, entry.letter) <= entry.max
    IN  SelectSeq(third, within)

RECURSIVE fourth_level_filter(_, _, _, _)
\* the loop over max_letter_occurrence.keys(), from entry k on; fourth is the
\* value the loop variable holds
fourth_level_filter(third, mlo, k, fourth) ==
    IF k > Len(mlo) THEN fourth
    ELSE fourth_level_filter(third, mlo, k + 1, OccurrenceFilter(third, mlo[k]))

\* get_possible_words returning its list without the first word
get_possible_words_drop_first(s) ==
    LET words == IF Len(s.max_letter_occurrence) <= 0
                 THEN third_level_filter(s)
                 ELSE fourth_level_filter(third_level_filter(s),
                                          s.max_letter_occurrence, 1, <<>>)
    IN  IF words = <<>> THEN <<>> ELSE Tail(words)

\* the list get_possible_words returns
get_possible_words(s) ==
    IF Len(s.max_letter_occurrence) <= 0
    THEN third_level_filter(s)
    ELSE fourth_level_filter(third_level_filter(s), s.max_letter_occurrence, 1, <<>>)

\* the solver after get_possible_words
after_get_possible_words(s) == [s EXCEPT !.effective_word_list = EffectiveWordList(s)]

RECURSIVE LetterFrequency(_, _)
\* get_letter_prob_dict: the occurrences of a letter in all words of the list
\* (the numerator of its probability)
LetterFrequency(word_list, letter) ==
    IF word_list = <<>> THEN 0
    ELSE CountLetter(Head(word_list), letter) + LetterFrequency(Tail(word_list), letter)

\* get_suggested_letters_by_freq: the letters not yet included, excluded or
\* high probability, in alphabet order
get_suggested_letters_by_freq(s, possible_words) ==
    IF Len(possible_words) <= 0 THEN <<>>
    ELSE LET unclassified(letter) ==
                 letter \notin s.included_letters \cup s.excluded_letters
                                   \cup Range(s.high_prob_letters)
         IN  SelectSeq(ascii_lowercase, unclassified)

\* the suggested letters sorted by descending frequency
SuggestedLetters(s, possible_words) ==
    LET letters == get_suggested_letters_by_freq(s, possible_words)
    IN  SortDescending(letters,
            [k \in 1..Len(letters) |-> LetterFrequency(possible_words, letters[k])])

\* get_letter_positional_prob_dict: how many of the words hold letter at
\* position i (the numerator of the positional probability)
PositionalFrequency(words, i, letter) ==
    Cardinality({k \in 1..Len(words) : words[k][i] = letter})

RECURSIVE PositionalScore(_, _, _, _)
\* sort_words_with_letter_positional_prob: the score of a word, the product
\* over the positions from i on that have no right spot letter
PositionalScore(s, words, word, i) ==
    IF i > Len(s.right_spot_pattern) THEN 1
    ELSE (IF s.right_spot_pattern[i] = symbol_anyletter
          THEN PositionalFrequency(words, i, word[i])
          ELSE 1) * PositionalScore(s, words, word, i + 1)

\* sort_words, with no word scores configured
sort_words(s, words) ==
    SortDescending(words, [k \in 1..Len(words) |-> PositionalScore(s, words, words[k], 1)])

\* suggested_letters[:i]
Prefix(seq, i) == SubSeq(seq, 1, IF i < Len(seq) THEN i ELSE Len(seq))

RECURSIVE RelaxationLoop(_, _, _, _)
\* RelaxationLoop leaving the forced letters of its first pass in place
RelaxationLoop_keep_forced(s, suggested_letters, i, all_possible_words) ==
    IF i <= 0
    THEN [words |-> sort_words(s, all_possible_words), solver |-> s,
          step |-> 0, forced |-> <<>>]
    ELSE LET forced == Prefix(suggested_letters, i)
             s1 == update_pattern_parameters([s EXCEPT !.high_prob_letters = forced])
             suggested_words == get_possible_words(s1)
             s2 == [after_get_possible_words(s1) EXCEPT !.high_prob_letters = forced]
         IN  [words |-> sort_words(s2, suggested_words), solver |-> s2,
              step |-> i, forced |-> forced]

\* for i in range(unknown_letter_count, 0, -1), from i on: the words
\* returned, the solver left behind, and the step and forced letters of the
\* pass that returned (step 0: the loop ended)
RelaxationLoop(s, suggested_letters, i, all_possible_words) ==
    IF i <= 0
    THEN [words |-> sort_words(s, all_possible_words), solver |-> s,
          step |-> 0, forced |-> <<>>]
    ELSE LET forced == Prefix(suggested_letters, i)
             s1 == update_pattern_parameters([s EXCEPT !.high_prob_letters = forced])
             suggested_words == get_possible_words(s1)
             s2 == [after_get_possible_words(s1) EXCEPT !.high_prob_letters = <<>>]
         IN  IF Len(suggested_words) > 0
             THEN [words |-> sort_words(s2, suggested_words), solver |-> s2,
                   step |-> i, forced |-> forced]
             ELSE RelaxationLoop(s2, suggested_letters, i - 1, all_possible_words)

\* WordleSolver.get_suggested_words
get_suggested_words(s) ==
    LET all_possible_words == get_possible_words(s)
        s1 == after_get_possible_words(s)
        unknown_letter_count == WordLength - Cardinality(s1.included_letters)
        suggested_letters == SuggestedLetters(s1, all_possible_words)
    IN  IF Len(all_possible_words) <= 0
        THEN [words |-> <<>>, solver |-> s1, step |-> 0, forced |-> <<>>]
        ELSE IF Len(suggested_letters) <= 0
        THEN [words |-> <<>>, solver |-> s1, step |-> 0, forced |-> <<>>]
        ELSE RelaxationLoop(s1, suggested_letters, unknown_letter_count,
                            all_possible_words)

\* the checks of input_guess_result, in order: the error raised, or "none"
GuessError(word, result_symbols) ==
    IF Len(word) # WordLength \/ Len(result_symbols) # WordLength THEN "length"
    ELSE IF ~ (\A k \in 1..Len(word) : word[k] \in Range(ascii_lowercase))
    THEN "character"
    ELSE IF ~ (\A k \in 1..Len(result_symbols) :
                   result_symbols[k] \in permitted_input_symbols)
    THEN "symbol"
    ELSE "none"

RECURSIVE LetterOrders(_)
\* the orders in which a Python string built by "".join(set(...)) can hold
\* the letters of a set
LetterOrders(letters) ==
    IF letters = {} THEN {<<>>}
    ELSE UNION {{<<letter>> \o order : order \in LetterOrders(letters \ {letter})} :
                    letter \in letters}

RECURSIVE ExcludedLetterConflicts(_, _)
\* the first loop of get_pattern_parameter_conflicts, over the excluded
\* letters in the order the string holds them
ExcludedLetterConflicts(s, order) ==
    IF order = <<>> THEN <<>>
    ELSE LET letter == Head(order)
         IN  (IF letter \in s.included_letters \cup Range(s.high_prob_letters)
              THEN << <<letter, "excluded letter found in inclusion list">> >>
              ELSE <<>>)
             \o (IF letter \in Range(s.right_spot_pattern)
                 THEN << <<letter, "excluded letter found in right spot pattern">> >>
                 ELSE <<>>)
             \o ExcludedLetterConflicts(s, Tail(order))

\* the positions the second loop reports
SpotConflictPositions(s) ==
    {i \in 1..WordLength : s.right_spot_pattern[i] \in s.wrong_spot_pattern[i]}

\* get_pattern_parameter_conflicts: the second loop reads the variable
\* letter the first loop left behind: the last excluded letter, and an
\* unbound variable (an error) when no letter is excluded
get_pattern_parameter_conflicts(s, order) ==
    IF SpotConflictPositions(s) = {}
    THEN [error |-> "none", conflicts |-> ExcludedLetterConflicts(s, order)]
    ELSE IF order = <<>>
    THEN [error |-> "unbound_local", conflicts |-> <<>>]
    ELSE [error |-> "none",
          conflicts |-> ExcludedLetterConflicts(s, order)
              \o [k \in 1..Cardinality(SpotConflictPositions(s)) |->
                     <<order[Len(order)], "letter in right spot found in wrong spot pattern">>]]

\* ------------------------------------------------- WordleSolverMultiList
VARIABLES
    kind,                       \* "solver": a WordleSolver on its own;
                                \* "multi": a WordleSolverMultiList
    word_lists,                 \* the coordinator's word_lists
    max_try_indexes_for_lists,  \* the coordinator's cutover thresholds
    tries,                      \* the coordinator's tries
    solvers,                    \* the solvers (the one solver when kind = "solver")
    alias,                      \* which tries fields name the same list object
    excluded_words_set,         \* the list last handed to set_excluded_words
                                \* since the last reset
    result                      \* what the last call returned or raised
                                \* (and the tries a reset discarded)

\* the word a game has hidden from the caller who feeds a solver (<<>> when
\* the caller's feedback follows no game)
VARIABLE hidden

vars == <<kind, word_lists, max_try_indexes_for_lists, tries, solvers, alias,
          excluded_words_set, result, hidden>>

Holders == 0..Len(solvers)

\* the outcome of a call that returns nothing
Outcome(op) ==
    [op |-> op, error |-> "none", words |-> <<>>, source |-> 0, step |-> 0,
     forced |-> <<>>, conflicts |-> <<>>, discarded |-> <<>>]

\* every holder named by the least holder of its list object
Canon(f) == [h \in DOMAIN f |-> CHOOSE j \in DOMAIN f :
                 /\ f[j] = f[h]
                 /\ \A i \in DOMAIN f : f[i] = f[h] => j <= i]

\* holder h is given a new list object
Unshare(f, h) == Canon([f EXCEPT ![h] = -1])

\* the word lists a coordinator is constructed over (none, one, two sources)
WordListConfigurations == { <<>>, <<WordList1>>, <<WordList1, WordList2>> }

Init ==
    /\ \/ /\ kind = "solver"
          /\ word_lists = <<WordList2>>
          /\ solvers = <<NewSolver(WordList2)>>
       \/ /\ kind = "multi"
          /\ word_lists \in WordListConfigurations
          /\ solvers = [k \in 1..Len(word_lists) |-> NewSolver(word_lists[k])]
    /\ max_try_indexes_for_lists = <<>>
    /\ tries = <<>>
    /\ alias = [h \in 0..Len(solvers) |-> h]
    /\ excluded_words_set = <<>>
    /\ result = Outcome("init")
    /\ hidden = <<>>

\* guesses offered to a solver's input_guess_result
Guesses == WellFormedGuesses \cup MalformedGuesses

\* no try list is full: a further guess is offered
RoomForGuess ==
    /\ Len(tries) < MaxTries
    /\ \A k \in 1..Len(solvers) : Len(solvers[k].tries) < MaxTries

\* ------------------------------------------ calls on a solver on its own
\* WordleSolver.input_guess_result
SolverInputGuessResult(word, result_symbols) ==
    /\ kind = "solver"
    /\ RoomForGuess
    /\ LET error == GuessError(word, result_symbols)
       IN  /\ result' = [Outcome("input_guess_result") EXCEPT !.error = error]
           /\ solvers' = IF error # "none" THEN solvers
                         ELSE [solvers EXCEPT ![1] = update_pattern_parameters(
                                  [@ EXCEPT !.tries = Append(@, <<word, result_symbols>>)])]
    /\ UNCHANGED <<hidden, kind, word_lists, max_try_indexes_for_lists, tries, alias,
                   excluded_words_set>>

\* WordleSolver.reset
SolverReset ==
    /\ kind = "solver"
    /\ solvers' = [solvers EXCEPT ![1] = solver_reset(@)]
    /\ excluded_words_set' = <<>>
    /\ result' = Outcome("reset")
    /\ UNCHANGED <<hidden, kind, word_lists, max_try_indexes_for_lists, tries, alias>>

\* WordleSolver.reset_pattern_parameters
SolverResetPatternParameters ==
    /\ kind = "solver"
    /\ solvers' = [solvers EXCEPT ![1] = reset_pattern_parameters(@)]
    /\ result' = Outcome("reset_pattern_parameters")
    /\ UNCHANGED <<hidden, kind, word_lists, max_try_indexes_for_lists, tries, alias,
                   excluded_words_set>>

\* WordleSolver.update_pattern_parameters
SolverUpdatePatternParameters ==
    /\ kind = "solver"
    /\ solvers' = [solvers EXCEPT ![1] = update_pattern_parameters(@)]
    /\ result' = Outcome("update_pattern_parameters")
    /\ UNCHANGED <<hidden, kind, word_lists, max_try_indexes_for_lists, tries, alias,
                   excluded_words_set>>

\* the caller assigns the solver's excluded_words
SolverSetExcludedWords(excluded_words) ==
    /\ kind = "solver"
    /\ solvers' = [solvers EXCEPT ![1].excluded_words = excluded_words]
    /\ excluded_words_set' = excluded_words
    /\ result' = Outcome("set_excluded_words")
    /\ UNCHANGED <<hidden, kind, word_lists, max_try_indexes_for_lists, tries, alias>>

\* WordleSolver.get_possible_words
SolverGetPossibleWords ==
    /\ kind = "solver"
    /\ solvers' = [solvers EXCEPT ![1] = after_get_possible_words(@)]
    /\ result' = [Outcome("get_possible_words") EXCEPT
                      !.words = get_possible_words(solvers[1])]
    /\ UNCHANGED <<hidden, kind, word_lists, max_try_indexes_for_lists, tries, alias,
                   excluded_words_set>>

\* WordleSolver.get_suggested_words
SolverGetSuggestedWords ==
    /\ kind = "solver"
    /\ LET r == get_suggested_words(solvers[1])
       IN  /\ solvers' = [solvers EXCEPT ![1] = r.solver]
           /\ result' = [Outcome("get_suggested_words") EXCEPT
                             !.words = r.words,
                             !.step = r.step, !.forced = r.forced]
    /\ UNCHANGED <<hidden, kind, word_lists, max_try_indexes_for_lists, tries, alias,
                   excluded_words_set>>

\* WordleSolver.get_pattern_parameter_conflicts on the solver on its own
SolverGetPatternParameterConflicts ==
    /\ kind = "solver"
    /\ \E order \in LetterOrders(solvers[1].excluded_letters) :
           LET r == get_pattern_parameter_conflicts(solvers[1], order)
           IN  result' = [Outcome("get_pattern_parameter_conflicts") EXCEPT
                              !.error = r.error, !.conflicts = r.conflicts]
    /\ UNCHANGED <<hidden, kind, word_lists, max_try_indexes_for_lists, tries, solvers,
                   alias, excluded_words_set>>

\* --------------------------------------------------- calls on the coordinator
\* list.append through holder h: every field naming the same list object
\* sees the new entry
AppendVia(st, h, guess) ==
    [st EXCEPT
        !.tries = IF alias[0] = alias[h] THEN Append(@, guess) ELSE @,
        !.solvers = [k \in 1..Len(st.solvers) |->
                        IF alias[k] = alias[h]
                        THEN [st.solvers[k] EXCEPT !.tries = Append(@, guess)]
                        ELSE st.solvers[k]]]

RECURSIVE BroadcastGuess(_, _, _, _)
\* WordleSolverMultiList.input_guess_result: the loop over the solvers from
\* solver k on, then the append to the coordinator's tries; a solver that
\* raises ends the call
BroadcastGuess(st, k, word, result_symbols) ==
    IF k > Len(st.solvers)
    THEN AppendVia(st, 0, <<word, result_symbols>>)
    ELSE IF GuessError(word, result_symbols) # "none"
    THEN [st EXCEPT !.error = GuessError(word, result_symbols)]
    ELSE LET st1 == AppendVia(st, k, <<word, result_symbols>>)
         IN  BroadcastGuess(
                 [st1 EXCEPT !.solvers[k] = update_pattern_parameters(@)],
                 k + 1, word, result_symbols)

MultiInputGuessResult(word, result_symbols) ==
    /\ kind = "multi"
    /\ RoomForGuess
    /\ LET st == BroadcastGuess([tries |-> tries, solvers |-> solvers, error |-> "none"],
                                1, word, result_symbols)
       IN  /\ tries' = st.tries
           /\ solvers' = st.solvers
           /\ result' = [Outcome("multi_input_guess_result") EXCEPT
                             !.error = st.error]
    /\ UNCHANGED <<hidden, kind, word_lists, max_try_indexes_for_lists, alias,
                   excluded_words_set>>

\* MultiReset clearing the coordinator's tries and leaving the solvers
MultiReset_tries_only ==
    /\ kind = "multi"
    /\ tries' = <<>>
    /\ solvers' = solvers
    /\ alias' = Unshare(alias, 0)
    /\ excluded_words_set' = <<>>
    /\ result' = [Outcome("multi_reset") EXCEPT !.discarded = tries]
    /\ UNCHANGED <<hidden, kind, word_lists, max_try_indexes_for_lists>>

\* WordleSolverMultiList.reset
MultiReset ==
    /\ kind = "multi"
    /\ tries' = <<>>
    /\ solvers' = [k \in 1..Len(word_lists) |-> NewSolver(word_lists[k])]
    /\ alias' = [h \in 0..Len(word_lists) |-> h]
    /\ excluded_words_set' = <<>>
    /\ result' = [Outcome("multi_reset") EXCEPT !.discarded = tries]
    /\ UNCHANGED <<hidden, kind, word_lists, max_try_indexes_for_lists>>

\* WordleSolverMultiList.reset_pattern_parameters: solver.reset() on every
\* solver, which gives each a new, empty tries list
MultiResetPatternParameters ==
    /\ kind = "multi"
    /\ solvers' = [k \in 1..Len(solvers) |-> solver_reset(solvers[k])]
    /\ alias' = [h \in Holders |-> h]
    /\ result' = Outcome("multi_reset_pattern_parameters")
    /\ UNCHANGED <<hidden, kind, word_lists, max_try_indexes_for_lists, tries,
                   excluded_words_set>>

\* WordleSolverMultiList.update_pattern_parameters: every solver is handed
\* the coordinator's tries list itself, and derives from it
MultiUpdatePatternParameters ==
    /\ kind = "multi"
    /\ solvers' = [k \in 1..Len(solvers) |->
                      update_pattern_parameters([solvers[k] EXCEPT !.tries = tries])]
    /\ alias' = [h \in Holders |-> 0]
    /\ result' = Outcome("multi_update_pattern_parameters")
    /\ UNCHANGED <<hidden, kind, word_lists, max_try_indexes_for_lists, tries,
                   excluded_words_set>>

\* WordleSolverMultiList.get_pattern_parameter_conflicts
MultiGetPatternParameterConflicts ==
    /\ kind = "multi"
    /\ IF Len(solvers) > 0
       THEN \E order \in LetterOrders(solvers[1].excluded_letters) :
                LET r == get_pattern_parameter_conflicts(solvers[1], order)
                IN  result' = [Outcome("multi_get_pattern_parameter_conflicts") EXCEPT
                                   !.error = r.error, !.conflicts = r.conflicts]
       ELSE result' = [Outcome("multi_get_pattern_parameter_conflicts") EXCEPT
                           !.error = "no_solvers"]
    /\ UNCHANGED <<hidden, kind, word_lists, max_try_indexes_for_lists, tries, solvers,
                   alias, excluded_words_set>>

\* SkipSource testing every source that has a threshold of its own
SkipSource_any_threshold(max_try_indexes, solver_count, try_count, i) ==
    /\ Len(max_try_indexes) >= i
    /\ try_count >= max_try_indexes[i]

\* SkipSource with > for >=
SkipSource_after(max_try_indexes, solver_count, try_count, i) ==
    /\ Len(max_try_indexes) >= solver_count
    /\ try_count > max_try_indexes[i]

\* the cutover test of the coordinator's get_suggested_words: source i is
\* passed over
SkipSource(max_try_indexes, solver_count, try_count, i) ==
    /\ Len(max_try_indexes) >= solver_count
    /\ try_count >= max_try_indexes[i]

RECURSIVE SuggestFromSources(_, _)
\* WordleSolverMultiList.get_suggested_words: the loop over the sources from
\* source i on; source is the index of the word list file path returned
SuggestFromSources(svs, i) ==
    IF i > Len(svs)
    THEN [words |-> <<>>, source |-> Len(word_lists), solvers |-> svs,
          step |-> 0, forced |-> <<>>]
    ELSE IF SkipSource(max_try_indexes_for_lists, Len(svs), Len(tries), i)
    THEN SuggestFromSources(svs, i + 1)
    ELSE LET r == get_suggested_words(svs[i])
             svs1 == [svs EXCEPT ![i] = r.solver]
         IN  IF Len(r.words) > 0
             THEN [words |-> r.words, source |-> i, solvers |-> svs1,
                   step |-> r.step, forced |-> r.forced]
             ELSE SuggestFromSources(svs1, i + 1)

MultiGetSuggestedWords ==
    /\ kind = "multi"
    /\ LET r == SuggestFromSources(solvers, 1)
       IN  /\ solvers' = r.solvers
           /\ result' = [Outcome("multi_get_suggested_words") EXCEPT
                             !.words = r.words, !.source = r.source,
                             !.step = r.step, !.forced = r.forced]
    /\ UNCHANGED <<hidden, kind, word_lists, max_try_indexes_for_lists, tries, alias,
                   excluded_words_set>>

\* WordleSolverMultiList.set_excluded_words
MultiSetExcludedWords(excluded_words) ==
    /\ kind = "multi"
    /\ solvers' = [k \in 1..Len(solvers) |->
                      [solvers[k] EXCEPT !.excluded_words = excluded_words]]
    /\ excluded_words_set' = excluded_words
    /\ result' = Outcome("multi_set_excluded_words")
    /\ UNCHANGED <<hidden, kind, word_lists, max_try_indexes_for_lists, tries, alias>>

\* the caller assigns max_try_indexes_for_lists
MultiSetMaxTryIndexes(max_try_indexes) ==
    /\ kind = "multi"
    /\ max_try_indexes_for_lists' = max_try_indexes
    /\ result' = Outcome("multi_set_max_try_indexes")
    /\ UNCHANGED <<hidden, kind, word_lists, tries, solvers, alias, excluded_words_set>>

\* the prompt loop's rollback: solver_multi.tries = solver_multi.tries[:-1],
\* a new list for the coordinator alone
MultiRemoveLast ==
    /\ kind = "multi"
    /\ tries' = SubSeq(tries, 1, Len(tries) - 1)
    /\ alias' = Unshare(alias, 0)
    /\ result' = Outcome("multi_remove_last")
    /\ UNCHANGED <<hidden, kind, word_lists, max_try_indexes_for_lists, solvers,
                   excluded_words_set>>

Next ==
    \/ \E guess \in Guesses : SolverInputGuessResult(guess[1], guess[2])
    \/ SolverReset
    \/ SolverResetPatternParameters
    \/ SolverUpdatePatternParameters
    \/ \E excluded_words \in ExcludedWordLists : SolverSetExcludedWords(excluded_words)
    \/ SolverGetPossibleWords
    \/ SolverGetSuggestedWords
    \/ SolverGetPatternParameterConflicts
    \/ \E guess \in MultiGuesses : MultiInputGuessResult(guess[1], guess[2])
    \/ MultiReset
    \/ MultiResetPatternParameters
    \/ MultiUpdatePatternParameters
    \/ MultiGetPatternParameterConflicts
    \/ MultiGetSuggestedWords
    \/ \E excluded_words \in ExcludedWordLists : MultiSetExcludedWords(excluded_words)
    \/ \E max_try_indexes \in MaxTryIndexLists : MultiSetMaxTryIndexes(max_try_indexes)
    \/ MultiRemoveLast

Spec == Init /\ [][Next]_vars

\* ------------------------------------------------ a game against a solver
\* the words the caller guesses: the word list and a word outside it
GameGuesses == Range(WordList2) \cup {seeps}

\* the symbol the game shows for position i of a guess, as the prompt
\* explains the symbols: "#" letter in the right spot, "?" letter in the word
\* but in a wrong spot (for as many occurrences as the word has left after
\* the right spots, from the left), "_" letter not in the word
FeedbackSymbol(word, guess, i) ==
    LET letter == guess[i]
        right == Cardinality({j \in 1..WordLength : guess[j] = letter /\ word[j] = letter})
        earlier == Cardinality({j \in 1..(i - 1) : guess[j] = letter /\ word[j] # letter})
    IN  IF word[i] = letter THEN "#"
        ELSE IF earlier < CountLetter(word, letter) - right THEN "?"
        ELSE "_"

\* the result symbols the game shows for a guess against the hidden word
WordleFeedback(word, guess) == [i \in 1..WordLength |-> FeedbackSymbol(word, guess, i)]

\* a solver over the word list, and a game that hides one of its words
GameInit ==
    /\ kind = "solver"
    /\ word_lists = <<WordList2>>
    /\ solvers = <<NewSolver(WordList2)>>
    /\ max_try_indexes_for_lists = <<>>
    /\ tries = <<>>
    /\ alias = [h \in 0..1 |-> h]
    /\ excluded_words_set = <<>>
    /\ result = Outcome("init")
    /\ hidden \in Range(WordList2)

\* the caller guesses a word that is not the hidden one and enters the
\* game's symbols with input_guess_result
GameGuess(word) ==
    /\ word # hidden
    /\ SolverInputGuessResult(word, WordleFeedback(hidden, word))

GameNext ==
    \/ \E word \in GameGuesses : GameGuess(word)
    \/ SolverGetPossibleWords

GameSpec == GameInit /\ [][GameNext]_vars

\* ================================================================ properties
AbsentRow == <<"_", "_", "_", "_", "_">>
SheepScenario == <<sheep, <<"_", "#", "#", "#", "_">> >>

\* a call of input_guess_result (on a solver or on the coordinator) has just
\* returned normally
GuessAccepted ==
    /\ result.op \in {"input_guess_result", "multi_input_guess_result"}
    /\ result.error = "none"

\* C1: input_guess_result, on a solver and on a coordinator with any number
\* of sources, raises an error for every malformed guess and leaves the
\* coordinator's tries and every solver (tries and pattern parameters) as
\* they were.
C1_MalformedGuessRejected ==
    [][\A guess \in MalformedGuesses :
          (\/ SolverInputGuessResult(guess[1], guess[2])
           \/ MultiInputGuessResult(guess[1], guess[2]))
          => /\ result'.error \in {"length", "character", "symbol"}
             /\ tries' = tries
             /\ solvers' = solvers]_vars

\* the five conditions of the candidate filter, stated on the solver's fields
IsCandidate(s, word) ==
    /\ s.included_letters \subseteq Range(word)
    /\ s.excluded_letters \cap Range(word) = {}
    /\ \A k \in 1..Len(s.tries) : s.tries[k][1] # word
    /\ \A k \in 1..Len(s.excluded_words) : s.excluded_words[k] # word
    /\ \A i \in 1..WordLength : word[i] \notin s.wrong_spot_pattern[i]
    /\ \A i \in 1..WordLength :
          s.right_spot_pattern[i] # symbol_anyletter => word[i] = s.right_spot_pattern[i]

\* the words of the word list that are candidates, in word list order
CandidatesOf(s) == LET keep(word) == IsCandidate(s, word) IN SelectSeq(s.word_list, keep)

\* C2: with no max-occurrence cap, get_possible_words returns exactly the
\* words of the word list, in its order, that contain every included letter,
\* contain no excluded letter, are neither tried nor in the solver's
\* exclusion list, hold no wrong spot letter and match every right spot letter.
C2_PossibleWordsExact ==
    \A k \in 1..Len(solvers) :
        solvers[k].max_letter_occurrence = <<>>
            => get_possible_words(solvers[k]) = CandidatesOf(solvers[k])

\* get_possible_words was called with tries, an exclusion list, included,
\* excluded, wrong spot and right spot letters at hand, and returned some
\* words of the list and dropped others
C2_Witness ==
    /\ result.op = "get_possible_words"
    /\ solvers[1].max_letter_occurrence = <<>>
    /\ solvers[1].tries # <<>>
    /\ solvers[1].excluded_words # <<>>
    /\ solvers[1].included_letters # {}
    /\ solvers[1].excluded_letters # {}
    /\ \E i \in 1..WordLength : solvers[1].wrong_spot_pattern[i] # {}
    /\ \E i \in 1..WordLength : solvers[1].right_spot_pattern[i] # symbol_anyletter
    /\ result.words # <<>>
    /\ result.words = CandidatesOf(solvers[1])
    /\ Len(result.words) < Len(solvers[1].word_list)

\* C3: every word get_possible_words returns respects every max-occurrence
\* cap at once.
C3_AllCapsRespected ==
    \A k \in 1..Len(solvers) :
        \A n \in 1..Len(get_possible_words(solvers[k])) :
            \A m \in 1..Len(solvers[k].max_letter_occurrence) :
                CountLetter(get_possible_words(solvers[k])[n],
                            solvers[k].max_letter_occurrence[m].letter)
                    <= solvers[k].max_letter_occurrence[m].max

\* C4: included and excluded letters are disjoint, every right spot letter
\* is included, and no letter is both excluded and a right spot letter.
C4_LetterSetsConsistent ==
    \A k \in 1..Len(solvers) :
        LET s == solvers[k]
            right_spot_letters == Range(s.right_spot_pattern) \ {symbol_anyletter}
        IN  /\ s.included_letters \cap s.excluded_letters = {}
            /\ right_spot_letters \subseteq s.included_letters
            /\ right_spot_letters \cap s.excluded_letters = {}

\* a letter was marked absent in an earlier try and correct in a later one,
\* and the state was derived from both
C4_Witness ==
    /\ GuessAccepted
    /\ kind = "solver"
    /\ solvers[1].tries = << <<sheep, AbsentRow>>, SheepScenario >>
    /\ "e" \in solvers[1].included_letters
    /\ "e" \notin solvers[1].excluded_letters
    /\ solvers[1].right_spot_pattern[3] = "e"
    /\ solvers[1].excluded_letters = {"s", "p"}

\* C5 as stated: after any sequence of accepted well-formed guesses no
\* position has its right spot letter in its wrong spot set.
C5_Original ==
    \A k \in 1..Len(solvers) :
        \A i \in 1..WordLength :
            solvers[k].right_spot_pattern[i] \notin solvers[k].wrong_spot_pattern[i]

\* some letter is marked correct at a position in one try and wrong spot at
\* the same position in another
SpotContradiction(history) ==
    \E a, b \in 1..Len(history) : \E i \in 1..WordLength :
        /\ history[a][2][i] = "#"
        /\ history[b][2][i] = "?"
        /\ history[a][1][i] = history[b][1][i]

\* C5: after any sequence of accepted well-formed guesses that never marks
\* one letter both correct and wrong spot at the same position, no position
\* has its right spot letter in its wrong spot set.
C5_SpotsDisjoint ==
    \A k \in 1..Len(solvers) :
        ~ SpotContradiction(solvers[k].tries)
            => \A i \in 1..WordLength :
                   solvers[k].right_spot_pattern[i] \notin solvers[k].wrong_spot_pattern[i]

\* two accepted guesses without contradiction left right spot letters and
\* wrong spot letters behind
C5_Witness ==
    /\ GuessAccepted
    /\ kind = "solver"
    /\ Len(solvers[1].tries) = 2
    /\ ~ SpotContradiction(solvers[1].tries)
    /\ \E i \in 1..WordLength : solvers[1].right_spot_pattern[i] # symbol_anyletter
    /\ \E i \in 1..WordLength : solvers[1].wrong_spot_pattern[i] # {}

\* the candidates when the first i suggested letters are forced
ForcedCandidates(s, suggested_letters, i) ==
    get_possible_words([s EXCEPT !.high_prob_letters = Prefix(suggested_letters, i)])

\* C6: when get_suggested_words returns from pass i of the relaxation, the
\* letters forced in that pass are the i most frequent unclassified letters,
\* every returned word contains each of them, and no earlier pass (a larger
\* i) had a non-empty set of candidates containing its forced letters.
C6_ForcedLettersHonoured ==
    [][SolverGetSuggestedWords =>
          LET s == solvers[1]
              letters == SuggestedLetters(s, get_possible_words(s))
              k == WordLength - Cardinality(s.included_letters)
          IN  result'.step >= 1 =>
                  /\ result'.forced = Prefix(letters, result'.step)
                  /\ \A n \in 1..Len(result'.words) :
                         Range(result'.forced) \subseteq Range(result'.words[n])
                  /\ \A i \in (result'.step + 1)..k :
                         ForcedCandidates(s, letters, i) = <<>>]_vars

\* C7: whenever get_possible_words is non-empty, get_suggested_words returns
\* a non-empty list.
C7_SuggestionWheneverCandidate ==
    [][SolverGetSuggestedWords =>
          (get_possible_words(solvers[1]) # <<>> => result'.words # <<>>)]_vars

\* C8: with one threshold per source, a non-empty result of the
\* coordinator's get_suggested_words tagged with source i is returned only
\* while the try count is below threshold i, and every earlier source has
\* reached its threshold or has no suggestion; with thresholds [1, maxsize]
\* and a submitted guess the result never comes from source 1.
C8_CutoverOrder ==
    [][(/\ result'.op = "multi_get_suggested_words"
        /\ Len(max_try_indexes_for_lists) = Len(solvers)
        /\ result'.words # <<>>
        /\ MultiGetSuggestedWords)
          => /\ result'.source \in 1..Len(solvers)
             /\ Len(tries) < max_try_indexes_for_lists[result'.source]
             /\ \A j \in 1..(result'.source - 1) :
                    \/ Len(tries) >= max_try_indexes_for_lists[j]
                    \/ get_suggested_words(solvers[j]).words = <<>>
             /\ (max_try_indexes_for_lists = <<1, maxsize>> /\ Len(tries) >= 1)
                    => result'.source # 1]_vars

\* with thresholds [1, maxsize] and one guess submitted, the coordinator
\* returned suggestions of source 2 while source 1 still has suggestions
C8_Witness ==
    /\ result.op = "multi_get_suggested_words"
    /\ max_try_indexes_for_lists = <<1, maxsize>>
    /\ Len(solvers) = 2
    /\ Len(tries) = 1
    /\ result.source = 2
    /\ result.words # <<>>
    /\ get_possible_words(solvers[1]) # <<>>
    /\ get_suggested_words(solvers[1]).words # <<>>

\* C9: once the caller has set the exclusion list, and until a reset, no
\* word of that list is in any list get_suggested_words or
\* get_possible_words returns.
C9_ExcludedWordsNeverReturned ==
    result.op \in {"get_possible_words", "get_suggested_words",
                   "multi_get_suggested_words"}
        => Range(excluded_words_set) \cap Range(result.words) = {}

\* C10 as stated: after the single guess "sheep" with feedback _###_ the
\* state holds the cap 2 for "e" and get_possible_words returns no word with
\* three or more "e".
C10_Original ==
    \A k \in 1..Len(solvers) :
        (GuessAccepted /\ solvers[k].tries = <<SheepScenario>>)
            => /\ [letter |-> "e", max |-> 2] \in Range(solvers[k].max_letter_occurrence)
               /\ \A n \in 1..Len(get_possible_words(solvers[k])) :
                      CountLetter(get_possible_words(solvers[k])[n], "e") < 3

\* the words of a list that match *hee* and hold neither "s" nor "p"
SheepCandidates(word_list) ==
    LET keep(word) ==
            /\ word[2] = "h" /\ word[3] = "e" /\ word[4] = "e"
            /\ "s" \notin Range(word) /\ "p" \notin Range(word)
    IN  SelectSeq(word_list, keep)

\* C10: after the single guess "sheep" with feedback _###_ the state holds
\* no cap at all ("e" is never marked absent): "h" and "e" are included, "s"
\* and "p" excluded, the right spot pattern is *hee*, and get_possible_words
\* returns every word of the list matching it without "s" and "p", whatever
\* its number of "e".
C10_SheepScenario ==
    \A k \in 1..Len(solvers) :
        (GuessAccepted /\ solvers[k].tries = <<SheepScenario>>)
            => /\ solvers[k].max_letter_occurrence = <<>>
               /\ solvers[k].included_letters = {"h", "e"}
               /\ solvers[k].excluded_letters = {"s", "p"}
               /\ solvers[k].right_spot_pattern = <<"*", "h", "e", "e", "*">>
               /\ get_possible_words(solvers[k]) = SheepCandidates(solvers[k].word_list)

\* the guess "sheep" with _###_ was accepted as the only try, and a word
\* with three "e" is among the possible words
C10_Witness ==
    /\ GuessAccepted
    /\ kind = "solver"
    /\ solvers[1].tries = <<SheepScenario>>
    /\ \E n \in 1..Len(get_possible_words(solvers[1])) :
           CountLetter(get_possible_words(solvers[1])[n], "e") >= 3

\* the letters a guess marks absent at one position and correct or wrong
\* spot at another position
PartlyAbsentLetters(guess) ==
    {guess[1][i] : i \in {i \in 1..WordLength :
        /\ guess[2][i] = "_"
        /\ \E j \in 1..WordLength :
               /\ j # i
               /\ guess[1][j] = guess[1][i]
               /\ guess[2][j] \in {"#", "?"}}}

\* C11: after an accepted guess, every letter that some guess of the history
\* marks absent at one position and correct or wrong spot at another
\* position (to its left or to its right) has an entry in
\* max_letter_occurrence and is not an excluded letter.
C11_CapForPartlyAbsentLetter ==
    GuessAccepted =>
        \A k \in 1..Len(solvers) :
            \A n \in 1..Len(solvers[k].tries) :
                \A letter \in PartlyAbsentLetters(solvers[k].tries[n]) :
                    /\ letter \in OccurrenceKeys(solvers[k].max_letter_occurrence)
                    /\ letter \notin solvers[k].excluded_letters

\* a call of get_pattern_parameter_conflicts (on a solver or through the
\* coordinator, which asks its first solver) has just ended
ConflictsAsked ==
    /\ result.op \in {"get_pattern_parameter_conflicts",
                      "multi_get_pattern_parameter_conflicts"}
    /\ Len(solvers) > 0

SpotConflictReason == "letter in right spot found in wrong spot pattern"

\* C12: when some position holds a right spot letter that is also in the
\* wrong spot set of that position, get_pattern_parameter_conflicts returns
\* normally and its list holds, for each such position, an entry with that
\* right spot letter and the right spot / wrong spot reason.
C12_SpotConflictNamesLetter ==
    (ConflictsAsked /\ SpotConflictPositions(solvers[1]) # {})
        => /\ result.error = "none"
           /\ \A i \in SpotConflictPositions(solvers[1]) :
                  <<solvers[1].right_spot_pattern[i], SpotConflictReason>>
                      \in Range(result.conflicts)

AllCorrect == <<"#", "#", "#", "#", "#">>

\* the last guess of a history is all correct
RoundSolved(history) ==
    /\ history # <<>>
    /\ history[Len(history)][2] = AllCorrect

\* the solvers of a coordinator constructed anew over the same word lists
FreshSolvers == [k \in 1..Len(word_lists) |-> NewSolver(word_lists[k])]

\* C13: after accepted guesses ending with an all correct guess and a
\* coordinator reset, the coordinator's tries and every solver's tries are
\* empty, every pattern parameter of every solver has its initial value, and
\* the next get_suggested_words returns what a coordinator constructed anew
\* over the same word lists (with the thresholds as configured) returns.
C13_ResetRestoresFreshRound ==
    (result.op = "multi_reset" /\ RoundSolved(result.discarded))
        => /\ tries = <<>>
           /\ Len(solvers) = Len(word_lists)
           /\ \A k \in 1..Len(solvers) :
                  /\ solvers[k].tries = <<>>
                  /\ solvers[k].word_list = word_lists[k]
                  /\ solvers[k].included_letters = {}
                  /\ solvers[k].excluded_letters = {}
                  /\ solvers[k].high_prob_letters = <<>>
                  /\ solvers[k].wrong_spot_pattern = [i \in 1..WordLength |-> {}]
                  /\ solvers[k].right_spot_pattern = [i \in 1..WordLength |-> "*"]
                  /\ solvers[k].max_letter_occurrence = <<>>
                  /\ solvers[k].excluded_words = <<>>
                  /\ solvers[k].effective_word_list = <<>>
           /\ SuggestFromSources(solvers, 1).words
                  = SuggestFromSources(FreshSolvers, 1).words
           /\ SuggestFromSources(solvers, 1).source
                  = SuggestFromSources(FreshSolvers, 1).source

\* a coordinator over two sources was reset after two accepted guesses, the
\* second all correct, and its next suggestions are not empty
C13_Witness ==
    /\ result.op = "multi_reset"
    /\ Len(result.discarded) = 2
    /\ RoundSolved(result.discarded)
    /\ Len(solvers) = 2
    /\ tries = <<>>
    /\ SuggestFromSources(solvers, 1).source = 1
    /\ SuggestFromSources(solvers, 1).words # <<>>

\* the solver set to search the list words instead of its word list
SearchOver(s, words) == [s EXCEPT !.word_list = words, !.effective_word_list = <<>>]

\* C14: for every solver, with any number of caps, get_possible_words over
\* the list get_possible_words returned, under the same pattern parameters,
\* returns that list again: the same words in the same order.
C14_FilterIdempotent ==
    \A k \in 1..Len(solvers) :
        LET possible_words == get_possible_words(solvers[k])
        IN  get_possible_words(SearchOver(solvers[k], possible_words)) = possible_words

\* get_possible_words was called with two caps at hand and returned some
\* words of the list and dropped others
C14_Witness ==
    /\ result.op = "get_possible_words"
    /\ Len(solvers[1].max_letter_occurrence) = 2
    /\ result.words = get_possible_words(solvers[1])
    /\ Len(result.words) >= 2
    /\ Len(result.words) < Len(solvers[1].word_list)

\* the pattern parameters derived from tries
PatternOf(s) ==
    <<s.included_letters, s.excluded_letters, s.right_spot_pattern,
      s.wrong_spot_pattern, s.max_letter_occurrence>>

\* the pattern parameters update_pattern_parameters derives from a history
DerivedPattern(s, history) ==
    PatternOf(update_pattern_parameters([s EXCEPT !.tries = history]))

\* C15: in every state of a coordinator every solver's tries equal the
\* coordinator's tries and every solver's pattern parameters are the ones
\* derived from them, and every accepted well-formed guess extends the
\* coordinator's tries by exactly that one guess.
C15_OneSharedHistory ==
    /\ [](kind = "multi" =>
            \A k \in 1..Len(solvers) :
                /\ solvers[k].tries = tries
                /\ PatternOf(solvers[k]) = DerivedPattern(solvers[k], tries))
    /\ [][\A guess \in MultiGuesses \ MalformedGuesses :
             MultiInputGuessResult(guess[1], guess[2])
                 => tries' = Append(tries, guess)]_vars

\* C16: in a game against a solver with no exclusion list, where every guess
\* differs from the hidden word and carries the symbols the game shows for
\* it, the hidden word is among the words get_possible_words returns, after
\* every guess.
C16_HiddenWordStaysPossible ==
    hidden \in Range(get_possible_words(solvers[1]))

\* two guesses were entered, a cap is set, and get_possible_words returned
\* the hidden word and dropped other words of the list
C16_Witness ==
    /\ hidden # <<>>
    /\ result.op = "get_possible_words"
    /\ Len(solvers[1].tries) = 2
    /\ solvers[1].max_letter_occurrence # <<>>
    /\ solvers[1].excluded_letters # {}
    /\ hidden \in Range(result.words)
    /\ Len(result.words) < Len(solvers[1].word_list)

\* C17 as stated: in every state high_prob_letters is empty, and
\* get_suggested_words on a solver leaves its tries, included and excluded
\* letters, right and wrong spot patterns and caps as they were.
C17_Original ==
    \A k \in 1..Len(solvers) :
        LET after == get_suggested_words(solvers[k]).solver
        IN  /\ solvers[k].high_prob_letters = <<>>
            /\ after.tries = solvers[k].tries
            /\ PatternOf(after) = PatternOf(solvers[k])

\* the pattern parameters of a solver are the ones derived from its tries
PatternIsDerived(s) == PatternOf(s) = DerivedPattern(s, s.tries)

\* C17: in every state high_prob_letters is empty, and get_suggested_words
\* on a solver whose pattern parameters are the ones derived from its tries
\* leaves high_prob_letters empty and its tries, included and excluded
\* letters, right and wrong spot patterns and caps as they were.
C17_SuggestionKeepsDerivedState ==
    \A k \in 1..Len(solvers) :
        LET after == get_suggested_words(solvers[k]).solver
        IN  /\ solvers[k].high_prob_letters = <<>>
            /\ PatternIsDerived(solvers[k]) =>
                   /\ after.high_prob_letters = <<>>
                   /\ after.tries = solvers[k].tries
                   /\ PatternOf(after) = PatternOf(solvers[k])

\* get_suggested_words returned from a pass of the relaxation on a solver
\* with two tries, a cap and derived pattern parameters, and a further call
\* runs the relaxation again
C17_Witness ==
    /\ result.op = "get_suggested_words"
    /\ result.step >= 1
    /\ Len(solvers[1].tries) = 2
    /\ solvers[1].max_letter_occurrence # <<>>
    /\ solvers[1].included_letters # {}
    /\ PatternIsDerived(solvers[1])
    /\ get_suggested_words(solvers[1]).step >= 1

\* C18: with fewer thresholds than sources (none included), the
\* coordinator's get_suggested_words returns, for every try count, the
\* suggestions of the first source in order that has any, tagged with that
\* source, and an empty list tagged with the last source when none has.
C18_NoCutoverWithFewerThresholds ==
    [][(/\ result'.op = "multi_get_suggested_words"
        /\ Len(max_try_indexes_for_lists) < Len(solvers)
        /\ MultiGetSuggestedWords)
          => LET suggested == [j \in 1..Len(solvers) |->
                                  get_suggested_words(solvers[j]).words]
                 sources == {j \in 1..Len(solvers) : suggested[j] # <<>>}
             IN  IF sources = {}
                 THEN /\ result'.words = <<>>
                      /\ result'.source = Len(word_lists)
                 ELSE \E j \in sources :
                          /\ \A i \in sources : j <= i
                          /\ result'.source = j
                          /\ result'.words = suggested[j]]_vars

\* with one threshold for two sources and the try count at that threshold,
\* the coordinator returned suggestions of source 1
C18_Witness ==
    /\ result.op = "multi_get_suggested_words"
    /\ max_try_indexes_for_lists = <<1>>
    /\ Len(solvers) = 2
    /\ Len(tries) >= 1
    /\ result.source = 1
    /\ result.words # <<>>

\* C19: get_pattern_parameter_conflicts never reports an excluded letter
\* found in the inclusion list or in the right spot pattern: every entry of
\* its list carries the right spot / wrong spot reason.
C19_OnlySpotConflicts ==
    ConflictsAsked =>
        \A n \in 1..Len(result.conflicts) : result.conflicts[n][2] = SpotConflictReason

\* a letter is marked absent in one try and correct or wrong spot in another
AbsentContradiction(history) ==
    \E a, b \in 1..Len(history) : \E i, j \in 1..WordLength :
        /\ a # b
        /\ history[a][1][i] = history[b][1][j]
        /\ history[a][2][i] = "_"
        /\ history[b][2][j] \in {"#", "?"}

\* get_pattern_parameter_conflicts returned normally on a solver whose tries
\* mark a letter absent first and wrong spot later
C19_Witness ==
    /\ result.op = "get_pattern_parameter_conflicts"
    /\ result.error = "none"
    /\ solvers[1].tries = << <<sheep, AbsentRow>>,
                            <<sheep, <<"_", "#", "#", "_", "?">> >> >>
    /\ AbsentContradiction(solvers[1].tries)
    /\ "p" \in solvers[1].included_letters

====
